---- MODULE Spec2Model ----
(***************************************************************************)
(* Model of Utils/Agents.py: the Agent class (constructor, prompt template *)
(* creation, run) together with the environment it reads (os.environ,      *)
(* sys.stdout.encoding) and the chat-completion endpoint it calls.         *)
(*                                                                         *)
(* Text is modelled as a sequence of tokens.  For prompts a token is a     *)
(* brace character or a brace-free piece of text; for replies a token is   *)
(* one code point.  Python values that may be None are tagged records.     *)
(***************************************************************************)
EXTENDS Integers, Sequences, FiniteSets, TLC

VARIABLES
    env,              \* os.environ restricted to the three variables read
    stdout_encoding,  \* sys.stdout.encoding ("None" when undeclared)
    ctor,             \* arguments and key variables of the __init__ call
    role,             \* self.role
    medical_report,   \* self.medical_report
    extra_info,       \* self.extra_info
    prompt_template,  \* self.prompt_template (the template text)
    client,           \* self.client
    pc,               \* where the instance is in its life
    raised,           \* exception the last call propagated to its caller
    prompt,           \* run(): the rendered prompt
    requests,         \* chat-completion requests issued so far
    completion,       \* outcome of the last request
    result,           \* value returned by the last run()
    trace             \* events of the instance, oldest first

vars == <<env, stdout_encoding, ctor, role, medical_report, extra_info,
          prompt_template, client, pc, raised, prompt, requests, completion,
          result, trace>>

(***************************************************************************)
(* Bounds of the model.                                                    *)
(***************************************************************************)
MaxLen == 3        \* longest subject text / total length of the three reports
MaxChars == 3      \* longest reply text, in code points
MaxRuns == 2       \* run() calls on one instance

(***************************************************************************)
(* Python values.                                                          *)
(***************************************************************************)
PyNone == [t |-> "None", s |-> <<>>]
PyStr(x) == [t |-> "str", s |-> x]
Missing == [t |-> "missing", s |-> <<>>]

\* str(v) as used by format substitution and f-string interpolation
Str(v) == IF v.t = "str" THEN v.s ELSE <<"None">>

NoError == [type |-> "none", msg |-> <<>>]
Error(ty, m) == [type |-> ty, msg |-> m]

SeqsUpTo(S, n) == UNION {[1..k -> S] : k \in 0..n}

\* x occurs in y as a contiguous run of tokens
Contains(y, x) ==
    \E i \in 0..(Len(y) - Len(x)) : SubSeq(y, i + 1, i + Len(x)) = x

(***************************************************************************)
(* The process environment.                                                *)
(***************************************************************************)
Unset == "<unset>"
EnvNames == {"OPENROUTER_API_KEY", "OPENAI_API_KEY", "OPENROUTER_MODEL"}
KeyNames == {"OPENROUTER_API_KEY", "OPENAI_API_KEY"}
Secrets == {"sk-or-1", "sk-oa-2"}
ModelValues == {Unset, "", "vendor/model-x"}
\* the values each variable takes: unset, empty, or a dummy value that tells
\* the two keys apart
Environments ==
    {e \in [EnvNames -> {Unset, ""} \cup Secrets \cup ModelValues] :
        /\ e["OPENROUTER_API_KEY"] \in {Unset, "", "sk-or-1"}
        /\ e["OPENAI_API_KEY"] \in {Unset, "", "sk-oa-2"}
        /\ e["OPENROUTER_MODEL"] \in ModelValues}
KeysOf(e) == [n \in KeyNames |-> e[n]]

\* bool(os.getenv(name)): an unset variable and an empty one are both falsy
Truthy(v) == v # Unset /\ v # ""
\* os.getenv(name, default)
GetenvDefault(e, name, default) == IF e[name] = Unset THEN default ELSE e[name]
\* a variant that prefers the second variable
PyOrSwapped(a, b) == IF Truthy(b) THEN b ELSE a
\* os.getenv(A) or os.getenv(B)
PyOr(a, b) == IF Truthy(a) THEN a ELSE b

DefaultModel == "openai/gpt-oss-20b:free"
BaseUrl == "https://openrouter.ai/api/v1"

(***************************************************************************)
(* Prompt templates.                                                       *)
(***************************************************************************)
Tok == {"a", "{", "}", "medical_report"}
Placeholder == <<"{", "medical_report", "}">>
Specialists == {"Cardiologist", "Psychologist", "Pulmonologist"}
Team == "MultidisciplinaryTeam"
KnownRoles == Specialists \cup {Team}
ReportKeys == {"cardiologist_report", "psychologist_report",
               "pulmonologist_report"}

\* the brace-free prose before and after the placeholder of each template
Preamble(r) == <<"Act like: " \o r>>
Closing == <<"\n">>

\* dict.get(key, '')
DictGet(d, k) == IF d[k].t = "missing" THEN PyStr(<<>>) ELSE d[k]

\* the f-string of the MultidisciplinaryTeam branch: the three reports are
\* interpolated into the text that from_template later parses
TeamTemplateText(ei) ==
    Preamble(Team)
      \o <<"Cardiologist Report: ">> \o Str(DictGet(ei.d, "cardiologist_report"))
      \o <<"Psychologist Report: ">> \o Str(DictGet(ei.d, "psychologist_report"))
      \o <<"Pulmonologist Report: ">> \o Str(DictGet(ei.d, "pulmonologist_report"))
      \o Closing

\* the entry of the dictionary of specialist templates
SpecialistTemplateText(r) == Preamble(r) \o Placeholder \o Closing

IsBrace(tk) == tk \in {"{", "}"}

\* index of the first brace of t at or after i, 0 when there is none
RECURSIVE NextBrace(_, _)
NextBrace(t, i) ==
    IF i > Len(t) THEN 0
    ELSE IF IsBrace(t[i]) THEN i
    ELSE NextBrace(t, i + 1)

\* string.Formatter.parse from position i: the literal pieces and the
\* replacement fields, or a ValueError
RECURSIVE ParseFrom(_, _)
ParseFrom(t, i) ==
    IF i > Len(t) THEN [ok |-> TRUE, items |-> <<>>]
    ELSE IF ~IsBrace(t[i])
    THEN LET rest == ParseFrom(t, i + 1)
         IN  [ok |-> rest.ok,
              items |-> <<[kind |-> "lit", v |-> <<t[i]>>]>> \o rest.items]
    ELSE IF i < Len(t) /\ t[i + 1] = t[i]
    THEN \* "{{" and "}}" are escapes for one brace
         LET rest == ParseFrom(t, i + 2)
         IN  [ok |-> rest.ok,
              items |-> <<[kind |-> "lit", v |-> <<t[i]>>]>> \o rest.items]
    ELSE IF t[i] = "}" \/ i = Len(t)
    THEN \* Single '}' / Single '{' encountered in format string
         [ok |-> FALSE, items |-> <<>>]
    ELSE LET j == NextBrace(t, i + 1)
         IN  IF j = 0 \/ t[j] = "{"
             THEN \* expected '}' before end of string / unexpected '{'
                  [ok |-> FALSE, items |-> <<>>]
             ELSE LET rest == ParseFrom(t, j + 1)
                  IN  [ok |-> rest.ok,
                       items |-> <<[kind |-> "field",
                                    v |-> SubSeq(t, i + 1, j - 1)]>>
                                 \o rest.items]

Parse(t) == ParseFrom(t, 1)

\* Formatter.vformat over the parsed items with the one keyword argument
\* medical_report: the first field that cannot be looked up raises
RECURSIVE FormatItems(_, _, _)
FormatItems(items, k, mr) ==
    IF k > Len(items) THEN [err |-> "none", out |-> <<>>]
    ELSE LET it == items[k]
             rest == FormatItems(items, k + 1, mr)
         IN  IF it.kind = "lit"
             THEN [err |-> rest.err, out |-> it.v \o rest.out]
             ELSE IF it.v = <<"medical_report">>
             THEN [err |-> rest.err, out |-> Str(mr) \o rest.out]
             ELSE IF it.v = <<>>
             THEN [err |-> "IndexError", out |-> <<>>]
             ELSE [err |-> "KeyError", out |-> <<>>]

\* a variant that formats the already substituted text a second time
FormatReparsed(t, mr) ==
    LET once == FormatItems(Parse(t).items, 1, mr)
    IN  IF once.err # "none" \/ ~Parse(once.out).ok
        THEN [err |-> "ValueError", out |-> <<>>]
        ELSE FormatItems(Parse(once.out).items, 1, mr)
\* PromptTemplate.format(medical_report=mr)
Format(t, mr) == FormatItems(Parse(t).items, 1, mr)

\* a variant in which an unknown role falls back to a specialist template
CreatePromptTemplateDefaulting(r, ei) ==
    IF r = Team
    THEN IF ei.t # "dict"
         THEN [err |-> "AttributeError", template |-> <<>>]
         ELSE IF ~Parse(TeamTemplateText(ei)).ok
         THEN [err |-> "ValueError", template |-> <<>>]
         ELSE [err |-> "none", template |-> TeamTemplateText(ei)]
    ELSE IF r \notin Specialists
    THEN [err |-> "none", template |-> SpecialistTemplateText("Cardiologist")]
    ELSE [err |-> "none", template |-> SpecialistTemplateText(r)]

\* Agent.create_prompt_template, with the text that from_template rejects
\* when it cannot be parsed
CreatePromptTemplate(r, ei) ==
    IF r = Team
    THEN IF ei.t # "dict"
         THEN [err |-> "AttributeError", template |-> <<>>]
         ELSE IF ~Parse(TeamTemplateText(ei)).ok
         THEN [err |-> "ValueError", template |-> <<>>]
         ELSE [err |-> "none", template |-> TeamTemplateText(ei)]
    ELSE IF r \notin Specialists
    THEN [err |-> "KeyError", template |-> <<>>]
    ELSE [err |-> "none", template |-> SpecialistTemplateText(r)]

(***************************************************************************)
(* Credential resolution.                                                  *)
(***************************************************************************)
BoolStr(b) == IF b THEN "True" ELSE "False"

NoApiKeyMessage(e) ==
    <<"No API key found. Environment presence: OPENROUTER_API_KEY=",
      BoolStr(Truthy(e["OPENROUTER_API_KEY"])),
      ", OPENAI_API_KEY=",
      BoolStr(Truthy(e["OPENAI_API_KEY"])),
      ". Please set OPENROUTER_API_KEY or OPENAI_API_KEY environment variable (do not paste the key into code).">>

\* the api_key of __init__, or the RuntimeError it raises
ResolveApiKey(e) ==
    LET api_key == PyOr(e["OPENROUTER_API_KEY"], e["OPENAI_API_KEY"])
    IN  IF ~Truthy(api_key)
        THEN [err |-> Error("RuntimeError", NoApiKeyMessage(e)), api_key |-> ""]
        ELSE [err |-> NoError, api_key |-> api_key]

NoClient == [base_url |-> "", api_key |-> ""]

(***************************************************************************)
(* The reply: extraction and output sanitizing.                            *)
(***************************************************************************)
Chars == {"a", "?", "e_acute", "euro", "surrogate"}
Replacement == "U+FFFD"
Encodings == {"utf-8", "ascii", "cp1252"}
StdoutEncodings == Encodings \cup {"None"}

\* sys.stdout.encoding or 'utf-8'
TargetEncoding(declared) == IF declared \in {"None", ""} THEN "utf-8" ELSE declared

\* the bytes of one code point in an encoding, <<>> when it has none
CharBytes(enc, c) ==
    CASE c = "a" -> <<97>>
      [] c = "?" -> <<63>>
      [] c = "e_acute" ->
            IF enc = "utf-8" THEN <<195, 169>>
            ELSE IF enc = "cp1252" THEN <<233>> ELSE <<>>
      [] c = "euro" ->
            IF enc = "utf-8" THEN <<226, 130, 172>>
            ELSE IF enc = "cp1252" THEN <<128>> ELSE <<>>
      [] c = Replacement ->
            IF enc = "utf-8" THEN <<239, 191, 189>> ELSE <<>>
      [] OTHER -> <<>>

Encodable(enc, c) == CharBytes(enc, c) # <<>>

\* str.encode(enc, errors='replace'): '?' stands for what cannot be encoded
RECURSIVE EncodeReplace(_, _)
EncodeReplace(enc, s) ==
    IF s = <<>> THEN <<>>
    ELSE (IF Encodable(enc, Head(s)) THEN CharBytes(enc, Head(s)) ELSE <<63>>)
         \o EncodeReplace(enc, SubSeq(s, 2, Len(s)))

\* bytes.decode(enc, errors='replace'): U+FFFD stands for undecodable bytes
RECURSIVE DecodeReplace(_, _)
DecodeReplace(enc, b) ==
    IF b = <<>> THEN <<>>
    ELSE LET hit == {c \in Chars \cup {Replacement} :
                        /\ Encodable(enc, c)
                        /\ Len(CharBytes(enc, c)) <= Len(b)
                        /\ SubSeq(b, 1, Len(CharBytes(enc, c))) = CharBytes(enc, c)}
         IN  IF hit = {}
             THEN <<Replacement>> \o DecodeReplace(enc, SubSeq(b, 2, Len(b)))
             ELSE LET c == CHOOSE x \in hit : TRUE
                  IN  <<c>> \o DecodeReplace(enc,
                                   SubSeq(b, Len(CharBytes(enc, c)) + 1, Len(b)))

\* str.encode(enc, errors='strict') succeeds
StrictEncodes(enc, s) == \A i \in 1..Len(s) : Encodable(enc, s[i])

\* a variant whose round trip decodes as UTF-8 whatever the target is
SanitizeDecodingUtf8(content, declared) ==
    LET enc == TargetEncoding(declared)
    IN  IF content.t # "str"
        THEN [err |-> "AttributeError", out |-> PyNone]
        ELSE IF StrictEncodes(enc, content.s)
        THEN [err |-> "none", out |-> content]
        ELSE [err |-> "none",
              out |-> PyStr(DecodeReplace("utf-8", EncodeReplace(enc, content.s)))]

\* lines 115-125: content when it encodes strictly, else the replace round
\* trip; content that is no string has no encode and raises in both blocks
Sanitize(content, declared) ==
    LET enc == TargetEncoding(declared)
    IN  IF content.t # "str"
        THEN [err |-> "AttributeError", out |-> PyNone]
        ELSE IF StrictEncodes(enc, content.s)
        THEN [err |-> "none", out |-> content]
        ELSE [err |-> "none",
              out |-> PyStr(DecodeReplace(enc, EncodeReplace(enc, content.s)))]

\* the outcome of a request: an exception of the client, or a response of
\* which the shape of the first choice is recorded
NoCompletion ==
    [kind |-> "none", err |-> "", choices |-> "missing", message |-> "missing",
     content |-> Missing, text |-> Missing]
ApiError(e) ==
    [kind |-> "error", err |-> e, choices |-> "missing", message |-> "missing",
     content |-> Missing, text |-> Missing]
Response(ch, m, c, tx) ==
    [kind |-> "response", err |-> "", choices |-> ch, message |-> m,
     content |-> c, text |-> tx]
ApiErrors == {"APIConnectionError", "AuthenticationError", "APIStatusError",
              "APIResponseValidationError"}

\* str(completion): some ASCII text
Repr(o) == <<"a">>

\* completion.choices[0].message.content: the value, or "missing" when the
\* attribute chain raises
PrimaryField(o) ==
    IF o.choices = "one" /\ o.message = "obj" THEN o.content ELSE Missing
\* completion.choices[0].text
SecondaryField(o) ==
    IF o.choices = "one" THEN o.text ELSE Missing

\* lines 105-113
Extract(o) ==
    IF PrimaryField(o).t # "missing" THEN PrimaryField(o)
    ELSE IF SecondaryField(o).t # "missing" THEN SecondaryField(o)
    ELSE PyStr(Repr(o))

\* a variant that prints the error and raises it again
ExceptHandlerReraising(e) == [raised |-> Error(e, <<>>), result |-> PyNone]

\* lines 126-128: the error is printed and None is returned (the prints of
\* run() write to stdout and are taken to succeed)
ExceptHandler(e) == [raised |-> NoError, result |-> PyNone]

\* what run() does with the outcome of its request
RunOutcome(o, declared) ==
    IF o.kind = "error" THEN ExceptHandler(o.err)
    ELSE LET san == Sanitize(Extract(o), declared)
         IN  IF san.err # "none" THEN ExceptHandler(san.err)
             ELSE [raised |-> NoError, result |-> san.out]

\* a variant that reads the key when the request is made
BuildRequestReadingEnv(e, cl, p) ==
    [model |-> GetenvDefault(e, "OPENROUTER_MODEL", DefaultModel),
     messages |-> <<[role |-> "user", content |-> p]>>,
     base_url |-> cl.base_url,
     api_key |-> e["OPENROUTER_API_KEY"]]

\* lines 96-102: the request run() issues for a rendered prompt
BuildRequest(e, cl, p) ==
    [model |-> GetenvDefault(e, "OPENROUTER_MODEL", DefaultModel),
     messages |-> <<[role |-> "user", content |-> p]>>,
     base_url |-> cl.base_url,
     api_key |-> cl.api_key]

Runs(tr) == Cardinality({i \in 1..Len(tr) : tr[i] \in {"render", "render_raised"}})

(***************************************************************************)
(* The operations.                                                         *)
(***************************************************************************)
\* Agent.__init__(medical_report=mr, role=r, extra_info=ei)
Construct(r, mr, ei) ==
    /\ pc = "start"
    /\ ctor' = [called |-> TRUE, role |-> r, medical_report |-> mr,
                extra_info |-> ei, env |-> KeysOf(env)]
    /\ medical_report' = mr
    /\ role' = r
    /\ extra_info' = ei
    /\ LET tpl == CreatePromptTemplate(r, ei)
           key == ResolveApiKey(env)
       IN  IF tpl.err # "none"
           THEN /\ raised' = Error(tpl.err, <<>>)
                /\ pc' = "ctor_failed"
                /\ UNCHANGED <<prompt_template, client>>
           ELSE /\ prompt_template' = tpl.template
                /\ IF key.err # NoError
                   THEN /\ raised' = key.err
                        /\ pc' = "ctor_failed"
                        /\ UNCHANGED client
                   ELSE /\ raised' = NoError
                        /\ pc' = "constructed"
                        /\ client' = [base_url |-> BaseUrl, api_key |-> key.api_key]
    /\ UNCHANGED <<env, stdout_encoding, prompt, requests, completion, result,
                   trace>>

\* Agent.run() up to the point where the request is on the wire
RunCall ==
    /\ pc \in {"constructed", "completed", "run_raised"}
    /\ Runs(trace) < MaxRuns
    /\ result' = PyNone
    /\ LET f == Format(prompt_template, medical_report)
       IN  IF f.err # "none"
           THEN /\ raised' = Error(f.err, <<>>)
                /\ pc' = "run_raised"
                /\ trace' = Append(trace, "render_raised")
                /\ UNCHANGED <<prompt, requests, completion>>
           ELSE /\ raised' = NoError
                /\ prompt' = f.out
                /\ completion' = NoCompletion
                /\ requests' = Append(requests, BuildRequest(env, client, f.out))
                /\ trace' = trace \o <<"render", "request">>
                /\ pc' = "invoked"
    /\ UNCHANGED <<env, stdout_encoding, ctor, role, medical_report, extra_info,
                   prompt_template, client>>

\* a variant that sends the request again when it failed
RespondRetrying(o) ==
    /\ pc = "invoked"
    /\ completion' = o
    /\ IF o.kind = "error" /\ Len(requests) < MaxRuns + 1
       THEN /\ requests' = Append(requests, requests[Len(requests)])
            /\ trace' = Append(trace, "request")
            /\ UNCHANGED <<pc, raised, result>>
       ELSE LET out == RunOutcome(o, stdout_encoding)
            IN  /\ raised' = out.raised
                /\ result' = out.result
                /\ pc' = "completed"
                /\ trace' = Append(trace, IF out.result.t = "str" THEN "text"
                                          ELSE "absent")
                /\ UNCHANGED requests
    /\ UNCHANGED <<env, stdout_encoding, ctor, role, medical_report, extra_info,
                   prompt_template, client, prompt>>

\* Agent.run() from the outcome o of the request to its return
Respond(o) ==
    /\ pc = "invoked"
    /\ completion' = o
    /\ LET out == RunOutcome(o, stdout_encoding)
       IN  /\ raised' = out.raised
           /\ result' = out.result
           /\ pc' = IF out.raised = NoError THEN "completed" ELSE "run_raised"
           /\ trace' = Append(trace, IF out.raised # NoError THEN "raised"
                                     ELSE IF out.result.t = "str" THEN "text"
                                     ELSE "absent")
    /\ UNCHANGED <<env, stdout_encoding, ctor, role, medical_report, extra_info,
                   prompt_template, client, prompt, requests>>

\* os.environ[n] = v, or del os.environ[n] when v is Unset
SetEnv(n, v) ==
    /\ v # env[n]
    /\ [env EXCEPT ![n] = v] \in Environments
    /\ env' = [env EXCEPT ![n] = v]
    /\ UNCHANGED <<stdout_encoding, ctor, role, medical_report, extra_info,
                   prompt_template, client, pc, raised, prompt, requests,
                   completion, result, trace>>

NoDict == [t |-> "None", d |-> [k \in ReportKeys |-> Missing]]
Dict(f) == [t |-> "dict", d |-> f]

InitWith(e, enc) ==
    /\ env = e
    /\ stdout_encoding = enc
    /\ ctor = [called |-> FALSE, role |-> "", medical_report |-> PyNone,
               extra_info |-> NoDict, env |-> KeysOf(e)]
    /\ role = ""
    /\ medical_report = PyNone
    /\ extra_info = NoDict
    /\ prompt_template = <<>>
    /\ client = NoClient
    /\ pc = "start"
    /\ raised = NoError
    /\ prompt = <<>>
    /\ requests = <<>>
    /\ completion = NoCompletion
    /\ result = PyNone
    /\ trace = <<>>

\* the subclasses fix the role; the base class takes any
ConstructSpecialist(r, s) == Construct(r, PyStr(s), NoDict)
ConstructTeam(c, p, u) ==
    Construct(Team, PyNone,
              Dict([k \in ReportKeys |->
                      IF k = "cardiologist_report" THEN PyStr(c)
                      ELSE IF k = "psychologist_report" THEN PyStr(p)
                      ELSE PyStr(u)]))
ConstructAgent(r, mr, ei) == Construct(r, mr, ei)

(***************************************************************************)
(* Specification of the life of one instance in a changing environment.    *)
(***************************************************************************)
OtherRoles == {"Dentist", "None"}
LifeOutcomes ==
    {ApiError(e) : e \in ApiErrors}
      \cup {Response("one", "obj", PyStr(<<"a">>), Missing),
            Response("one", "obj", PyNone, Missing)}

Init == \E e \in Environments : InitWith(e, "utf-8")

Next ==
    \/ \E r \in Specialists : ConstructSpecialist(r, <<"a">>)
    \/ ConstructTeam(<<"a">>, <<>>, <<"a">>)
    \/ \E r \in OtherRoles : ConstructAgent(r, PyStr(<<"a">>), NoDict)
    \/ RunCall
    \/ \E o \in LifeOutcomes : Respond(o)
    \/ \E n \in EnvNames, v \in {Unset, ""} \cup Secrets \cup ModelValues :
          SetEnv(n, v)

Spec == Init /\ [][Next]_vars

(***************************************************************************)
(* Specification of prompt rendering: every subject text and every triple  *)
(* of reports up to MaxLen tokens, in a fixed environment.                 *)
(***************************************************************************)
KeyedEnv ==
    [n \in EnvNames |-> IF n = "OPENROUTER_API_KEY" THEN "sk-or-1" ELSE Unset]
Texts == SeqsUpTo(Tok, MaxLen)
PromptOutcomes ==
    {ApiError("APIConnectionError"),
     Response("one", "obj", PyStr(<<"a">>), Missing)}

\* the mapping whose three reports are the pieces of w cut at i and j,
\* without the keys in om
ReportsOf(w, i, j, om) ==
    [k \in ReportKeys |->
        IF k \in om THEN Missing
        ELSE IF k = "cardiologist_report" THEN PyStr(SubSeq(w, 1, i))
        ELSE IF k = "psychologist_report" THEN PyStr(SubSeq(w, i + 1, j))
        ELSE PyStr(SubSeq(w, j + 1, Len(w)))]

InitPrompt == InitWith(KeyedEnv, "utf-8")

NextPrompt ==
    \/ /\ pc = "start"
       /\ \E r \in Specialists, s \in Texts : ConstructSpecialist(r, s)
    \/ /\ pc = "start"
       /\ \E w \in Texts : \E i \in 0..Len(w) : \E j \in i..Len(w) :
             ConstructTeam(SubSeq(w, 1, i), SubSeq(w, i + 1, j),
                           SubSeq(w, j + 1, Len(w)))
    \/ /\ pc = "start"
       /\ \E w \in Texts : \E i \in 0..Len(w) : \E j \in i..Len(w) :
             \E om \in SUBSET ReportKeys :
                ConstructAgent(Team, PyNone, Dict(ReportsOf(w, i, j, om)))
    \/ RunCall
    \/ \E o \in PromptOutcomes : Respond(o)

SpecPrompt == InitPrompt /\ [][NextPrompt]_vars

(***************************************************************************)
(* Specification of reply handling: every response shape with texts up to  *)
(* MaxChars code points, under every stdout encoding.                      *)
(***************************************************************************)
PrimaryFields == {Missing, PyNone} \cup {PyStr(s) : s \in SeqsUpTo(Chars, MaxChars)}
SecondaryFields ==
    {Missing, PyNone} \cup {PyStr(s) : s \in SeqsUpTo({"?", "surrogate"}, 1)}
ReplyOutcomes ==
    {ApiError("APIConnectionError")}
      \cup {Response(ch, "missing", Missing, Missing) :
               ch \in {"missing", "None", "empty"}}
      \cup {Response("one", m, Missing, tx) :
               m \in {"missing", "None"}, tx \in SecondaryFields}
      \cup {Response("one", "obj", c, tx) :
               c \in PrimaryFields, tx \in SecondaryFields}

InitReply == \E enc \in StdoutEncodings : InitWith(KeyedEnv, enc)

NextReply ==
    \/ ConstructSpecialist("Cardiologist", <<"a">>)
    \/ RunCall
    \/ \E o \in ReplyOutcomes : Respond(o)

SpecReply == InitReply /\ [][NextReply]_vars

(***************************************************************************)
(* The claims.                                                             *)
(***************************************************************************)

\* C1: when the request of run() fails with any error of the client, run()
\* returns None and propagates no exception, whatever the role.
C1_FailedRequestReturnsNone ==
    completion.kind = "error" =>
        /\ pc = "completed"
        /\ result = PyNone
        /\ raised = NoError
C1_Witness ==
    /\ pc = "completed"
    /\ role = Team
    /\ completion.kind = "error"
    /\ completion.err = "AuthenticationError"
    /\ result = PyNone

\* the constructor got as far as resolving the credential
ReachedCredentials == ctor.called /\ prompt_template # <<>>

\* the error of a construction that found no key: a RuntimeError whose
\* message reports both variables absent and holds no key value
NoKeyError ==
    /\ pc = "ctor_failed"
    /\ raised.type = "RuntimeError"
    /\ \E i \in 1..(Len(raised.msg) - 1) :
          /\ raised.msg[i] = "No API key found. Environment presence: OPENROUTER_API_KEY="
          /\ raised.msg[i + 1] = "False"
    /\ \E i \in 1..(Len(raised.msg) - 1) :
          /\ raised.msg[i] = ", OPENAI_API_KEY="
          /\ raised.msg[i + 1] = "False"
    /\ \A i \in 1..Len(raised.msg) : raised.msg[i] \notin Secrets
    /\ client = NoClient

\* C2 as stated, "set" meaning present in the environment with any value:
\* only the fallback set: it is used; both set: the preferred one is used;
\* neither set: construction fails with the error above.
C2_AsStated ==
    ReachedCredentials =>
        LET preferred == ctor.env["OPENROUTER_API_KEY"]
            fallback == ctor.env["OPENAI_API_KEY"]
        IN  /\ (preferred = Unset /\ fallback # Unset) =>
                  (pc # "ctor_failed" /\ client.api_key = fallback)
            /\ (preferred # Unset /\ fallback # Unset) =>
                  (pc # "ctor_failed" /\ client.api_key = preferred)
            /\ (preferred = Unset /\ fallback = Unset) => NoKeyError

\* C2 amended: the same three cases with "set" meaning set to a non-empty
\* value; a variable set to the empty string counts as absent.
NonEmpty(v) == v # Unset /\ v # ""
C2_CredentialResolution ==
    ReachedCredentials =>
        LET preferred == ctor.env["OPENROUTER_API_KEY"]
            fallback == ctor.env["OPENAI_API_KEY"]
        IN  /\ (~NonEmpty(preferred) /\ NonEmpty(fallback)) =>
                  (pc # "ctor_failed" /\ client.api_key = fallback)
            /\ (NonEmpty(preferred) /\ NonEmpty(fallback)) =>
                  (pc # "ctor_failed" /\ client.api_key = preferred)
            /\ (~NonEmpty(preferred) /\ ~NonEmpty(fallback)) => NoKeyError
C2_Witness ==
    /\ pc = "constructed"
    /\ ctor.env["OPENROUTER_API_KEY"] = ""
    /\ ctor.env["OPENAI_API_KEY"] = "sk-oa-2"
    /\ client.api_key = "sk-oa-2"

\* the text the claim of C3 expects from a response: the primary field if
\* present, else the secondary field if present, else str(response)
TieredText(o) ==
    IF o.choices = "one" /\ o.message = "obj" /\ o.content.t # "missing"
    THEN o.content
    ELSE IF o.choices = "one" /\ o.text.t # "missing"
    THEN o.text
    ELSE PyStr(Repr(o))

\* C3: after a successful request the result of run() is a string, the
\* sanitized text of the first tier that is present, for every response shape.
C3_AsStated ==
    (pc = "completed" /\ completion.kind = "response") =>
        /\ result.t = "str"
        /\ raised = NoError
        /\ TieredText(completion).t = "str" =>
              result = Sanitize(TieredText(completion), stdout_encoding).out

\* the number of places where s holds the placeholder of the templates
CountPlaceholders(s) ==
    Cardinality({i \in 1..(Len(s) - 2) : SubSeq(s, i, i + 2) = Placeholder})

\* C4: for the MultidisciplinaryTeam role and any three reports, omitted
\* ones counting as empty, neither construction nor rendering fails and the
\* rendered prompt holds the three reports verbatim and no brace that is
\* not a brace of a report.
C4_AsStated ==
    (ctor.called /\ ctor.role = Team /\ ctor.extra_info.t = "dict") =>
        /\ pc \notin {"ctor_failed", "run_raised"}
        /\ pc \in {"invoked", "completed"} =>
              /\ \A k \in ReportKeys :
                    Contains(prompt, Str(DictGet(ctor.extra_info.d, k)))
              /\ \A i \in 1..Len(prompt) :
                    IsBrace(prompt[i]) =>
                       \E k \in ReportKeys :
                          Contains(Str(DictGet(ctor.extra_info.d, k)), <<prompt[i]>>)

\* C5: for a specialist and any subject text, rendering succeeds and the
\* prompt is the template with the text in the place of its placeholder,
\* verbatim, no placeholder of the template being left.
C5_SpecialistPrompt ==
    (ctor.called /\ ctor.role \in Specialists /\ ctor.medical_report.t = "str") =>
        /\ pc \notin {"ctor_failed", "run_raised"}
        /\ pc \in {"invoked", "completed"} =>
              /\ prompt = Preamble(ctor.role) \o ctor.medical_report.s \o Closing
              /\ CountPlaceholders(prompt) = CountPlaceholders(ctor.medical_report.s)
              /\ requests[Len(requests)].messages[1].content = prompt
C5_Witness ==
    /\ pc = "invoked"
    /\ role = "Psychologist"
    /\ medical_report = PyStr(<<"{", "medical_report", "}">>)
    /\ prompt = Preamble("Psychologist") \o <<"{", "medical_report", "}">> \o Closing

\* C6 as stated: a role outside the closed set fails construction with the
\* error class of a missing credential (RuntimeError), key or no key, no
\* instance results and no request is issued.
C6_AsStated ==
    (ctor.called /\ ctor.role \notin KnownRoles) =>
        /\ pc = "ctor_failed"
        /\ raised.type = "RuntimeError"
        /\ requests = <<>>

\* C6 amended: a role outside the closed set fails construction with a
\* KeyError raised by the template lookup, before any credential is read,
\* key or no key; no instance results and no request is issued.
C6_UnknownRoleFails ==
    (ctor.called /\ ctor.role \notin KnownRoles) =>
        /\ pc = "ctor_failed"
        /\ raised.type = "KeyError"
        /\ client = NoClient
        /\ requests = <<>>
C6_Witness ==
    /\ ctor.called
    /\ ctor.role = "Dentist"
    /\ ctor.env["OPENROUTER_API_KEY"] = "sk-or-1"
    /\ pc = "ctor_failed"
    /\ raised.type = "KeyError"

\* C7: for a reply text and the target encoding, run() returns the text
\* unchanged when all of it is encodable, and otherwise the text with "?" in
\* the place of each code point that is not; the result is no longer than
\* the text, is encodable, sanitizes to itself, and nothing is raised.
C7_Sanitizer ==
    (pc = "completed" /\ completion.kind = "response"
       /\ TieredText(completion).t = "str") =>
        LET text == TieredText(completion).s
            enc == IF stdout_encoding = "None" THEN "utf-8" ELSE stdout_encoding
        IN  /\ raised = NoError
            /\ result.t = "str"
            /\ (\A i \in 1..Len(text) : Encodable(enc, text[i])) => result.s = text
            /\ Len(result.s) <= Len(text)
            /\ \A i \in 1..Len(text) :
                  i <= Len(result.s) /\
                  result.s[i] = IF Encodable(enc, text[i]) THEN text[i] ELSE "?"
            /\ \A i \in 1..Len(result.s) : Encodable(enc, result.s[i])
            /\ Sanitize(result, stdout_encoding) = [err |-> "none", out |-> result]
C7_Witness ==
    /\ pc = "completed"
    /\ stdout_encoding = "cp1252"
    /\ completion.kind = "response"
    /\ completion.content = PyStr(<<"e_acute", "surrogate", "euro">>)
    /\ result = PyStr(<<"e_acute", "?", "euro">>)

\* the events of whole run() calls: a failed rendering, or a rendering, then
\* one request, then one completion
RECURSIVE RunsWellFormed(_, _)
RunsWellFormed(tr, i) ==
    IF i > Len(tr) THEN TRUE
    ELSE IF tr[i] = "render_raised" THEN RunsWellFormed(tr, i + 1)
    ELSE /\ tr[i] = "render"
         /\ i + 1 <= Len(tr)
         /\ tr[i + 1] = "request"
         /\ i + 2 <= Len(tr) =>
               /\ tr[i + 2] \in {"text", "absent"}
               /\ RunsWellFormed(tr, i + 3)

Count(tr, ev) == Cardinality({i \in 1..Len(tr) : tr[i] = ev})

\* C8 amended: each run() call renders the prompt, then issues exactly one
\* request (none when rendering raises, none again after a failure), then
\* completes with a text or with None; completion does not close the
\* instance: a later run() call goes through the same steps again.
C8_RunLifecycle ==
    /\ RunsWellFormed(trace, 1)
    /\ Len(requests) = Count(trace, "request")
    /\ Len(requests) = Count(trace, "render")
    /\ pc = "invoked" <=> (trace # <<>> /\ trace[Len(trace)] = "request")
    /\ pc = "completed" <=>
          (trace # <<>> /\ trace[Len(trace)] \in {"text", "absent"})
    /\ pc = "completed" => (result.t = "str" <=> trace[Len(trace)] = "text")
C8_Witness ==
    /\ pc = "completed"
    /\ trace = <<"render", "request", "absent", "render", "request", "text">>
    /\ Len(requests) = 2

\* C8 as stated: the lifecycle above, with completion terminal: once the
\* instance has completed, it renders nothing and requests nothing more.
C8_AsStated ==
    /\ [](RunsWellFormed(trace, 1) /\ Len(requests) = Count(trace, "render"))
    /\ [][pc = "completed" =>
            (pc' = "completed" /\ requests' = requests /\ trace' = trace)]_vars

\* C9: every request carries a non-empty model, the value of OPENROUTER_MODEL
\* when it is set and the default when it is not, and one message, of role
\* "user", whose content is the rendered prompt.
C9_AsStated ==
    [][requests' # requests =>
         LET rq == requests'[Len(requests')]
         IN  /\ rq.model # ""
             /\ rq.model = IF env["OPENROUTER_MODEL"] # Unset
                           THEN env["OPENROUTER_MODEL"] ELSE DefaultModel
             /\ Len(rq.messages) = 1
             /\ rq.messages[1].role = "user"
             /\ rq.messages[1].content = prompt']_vars

\* C10: every request carries the key resolved from the environment of the
\* construction, a non-empty one, whatever the key variables hold since.
C10_KeyFixedAtConstruction ==
    \A i \in 1..Len(requests) :
        /\ requests[i].api_key =
              (IF NonEmpty(ctor.env["OPENROUTER_API_KEY"])
               THEN ctor.env["OPENROUTER_API_KEY"]
               ELSE ctor.env["OPENAI_API_KEY"])
        /\ NonEmpty(requests[i].api_key)
C10_Witness ==
    /\ pc = "invoked"
    /\ Len(requests) = 2
    /\ ctor.env["OPENROUTER_API_KEY"] = "sk-or-1"
    /\ env["OPENROUTER_API_KEY"] = Unset
    /\ env["OPENAI_API_KEY"] = "sk-oa-2"
    /\ requests[1].model # requests[2].model
    /\ requests[2].api_key = "sk-or-1"

====
